---- MODULE Spec2Model ----
(***************************************************************************)
(* confucius: loading a layered configuration into a record, then the      *)
(* per-field policy pass (environment overlay, required check, default).   *)
(*                                                                         *)
(* Go strings are modelled as sequences of one-character strings, so that  *)
(* parsing, splitting and replacing are computed character by character.   *)
(* Error values are modelled by their message text (a TLA+ string); the    *)
(* empty message "" stands for a nil error.                                *)
(***************************************************************************)
EXTENDS Integers, Sequences, FiniteSets, TLC

VARIABLES
    c,          \* the confucius struct: the options of this load
    fsys,       \* the file system: path -> file content
    environ,    \* the process environment: name -> value, for the names set
    override,   \* what readerConfig yields when decoded
    fields,     \* the flattened leaf descriptors of the destination type
    cfg,        \* the destination record: leaf index -> current value
    pc,         \* position inside Load / processCfg
    vals,       \* the untyped tree being assembled by Load
    pidx,       \* index of the next profile to merge
    fidx,       \* index of the next leaf processCfg handles
    errs,       \* processCfg's fieldErrors: path -> message
    result,     \* what Load / processCfg returned (Running until it returns)
    hist,       \* per handled leaf: its value before processField, the error
    dest,       \* the shape of the argument passed as cfg
    args,       \* the arguments of a function that is called on its own
    ret         \* what that function returned

vars == <<c, fsys, environ, override, fields, cfg, pc, vals, pidx, fidx, errs,
          result, hist, dest, args, ret>>

----------------------------------------------------------------------------
(* Characters and strings                                                  *)

Lower == <<"a","b","c","d","e","f","g","h","i","j","k","l","m",
           "n","o","p","q","r","s","t","u","v","w","x","y","z">>
Upper == <<"A","B","C","D","E","F","G","H","I","J","K","L","M",
           "N","O","P","Q","R","S","T","U","V","W","X","Y","Z">>
Digits == <<"0","1","2","3","4","5","6","7","8","9">>

Range(s) == {s[i] : i \in DOMAIN s}

IsDigit(ch) == ch \in Range(Digits)

DigitVal(ch) == (CHOOSE i \in DOMAIN Digits : Digits[i] = ch) - 1

\* unicode.ToUpper on one character
UpperChar(ch) ==
    IF ch \in Range(Lower)
    THEN Upper[CHOOSE i \in DOMAIN Lower : Lower[i] = ch]
    ELSE ch

\* strings.ToUpper
ToUpper(s) == [i \in DOMAIN s |-> UpperChar(s[i])]

RECURSIVE Concat(_)
\* concatenation of a sequence of strings
Concat(ss) == IF ss = <<>> THEN <<>> ELSE Head(ss) \o Concat(Tail(ss))

\* strings.HasPrefix(s[i:], old), positions counted from 1
HasPrefixAt(s, i, old) ==
    /\ i + Len(old) - 1 <= Len(s)
    /\ \A k \in 1..Len(old) : s[i + k - 1] = old[k]

RECURSIVE ReplaceAll(_, _, _)
\* strings.ReplaceAll(s, old, new) for a non-empty old: leftmost,
\* non-overlapping occurrences, scanned once from left to right
ReplaceAll(s, old, new) ==
    IF s = <<>> THEN <<>>
    ELSE IF HasPrefixAt(s, 1, old)
         THEN new \o ReplaceAll(SubSeq(s, Len(old) + 1, Len(s)), old, new)
         ELSE <<Head(s)>> \o ReplaceAll(Tail(s), old, new)

RECURSIVE Split(_, _)
\* strings.Split(s, sep) for a one-character separator
Split(s, sep) ==
    IF \A i \in DOMAIN s : s[i] # sep THEN <<s>>
    ELSE LET i == CHOOSE j \in DOMAIN s :
                      s[j] = sep /\ \A k \in 1..(j - 1) : s[k] # sep
         IN  <<SubSeq(s, 1, i - 1)>> \o Split(SubSeq(s, i + 1, Len(s)), sep)

IsSpace(ch) == ch \in {" ", "\t", "\n", "\r"}

RECURSIVE TrimLeft(_)
TrimLeft(s) == IF s # <<>> /\ IsSpace(Head(s)) THEN TrimLeft(Tail(s)) ELSE s

RECURSIVE TrimRight(_)
TrimRight(s) ==
    IF s # <<>> /\ IsSpace(s[Len(s)]) THEN TrimRight(SubSeq(s, 1, Len(s) - 1))
    ELSE s

\* strings.TrimSpace
TrimSpace(s) == TrimRight(TrimLeft(s))

\* strings.TrimPrefix / strings.TrimSuffix for a one-character affix
TrimPrefix(s, ch) == IF s # <<>> /\ Head(s) = ch THEN Tail(s) ELSE s
TrimSuffix(s, ch) ==
    IF s # <<>> /\ s[Len(s)] = ch THEN SubSeq(s, 1, Len(s) - 1) ELSE s

----------------------------------------------------------------------------
(* String conversions of the Go standard library, as setValue calls them   *)

AllDigits(s) == s # <<>> /\ \A i \in DOMAIN s : IsDigit(s[i])

RECURSIVE DecimalValue(_)
\* the number a non-empty run of decimal digits denotes
DecimalValue(s) ==
    IF s = <<>> THEN 0
    ELSE 10 * DecimalValue(SubSeq(s, 1, Len(s) - 1)) + DigitVal(s[Len(s)])

Ok(v) == [err |-> "", v |-> v]
Fail(msg, v) == [err |-> msg, v |-> v]

\* strconv.ParseUint(s, 10, 64): digits only, no sign of either kind.
\* (A literal of the model has fewer than ten digits, so the 64-bit range
\* error is out of reach.)
ParseUint(s) ==
    IF AllDigits(s) THEN Ok(DecimalValue(s)) ELSE Fail("invalid syntax", 0)

\* strconv.ParseInt(s, 10, 64): an optional sign, then ParseUint
ParseInt(s) ==
    IF s = <<>> THEN Fail("invalid syntax", 0)
    ELSE LET signed == Head(s) \in {"+", "-"}
             r == ParseUint(IF signed THEN Tail(s) ELSE s)
         IN  IF r.err # "" THEN r
             ELSE IF Head(s) = "-" THEN Ok(0 - r.v) ELSE r

\* strconv.ParseBool
ParseBool(s) ==
    IF s \in {<<"1">>, <<"t">>, <<"T">>, <<"t","r","u","e">>,
              <<"T","R","U","E">>, <<"T","r","u","e">>} THEN Ok(TRUE)
    ELSE IF s \in {<<"0">>, <<"f">>, <<"F">>, <<"f","a","l","s","e">>,
                   <<"F","A","L","S","E">>, <<"F","a","l","s","e">>}
         THEN Ok(FALSE)
         ELSE Fail("invalid syntax", FALSE)

\* the length of the longest prefix of s whose characters all satisfy the
\* membership test in the set chars (0 when there is none)
RECURSIVE PrefixLen(_, _)
PrefixLen(s, chars) ==
    IF s # <<>> /\ Head(s) \in chars THEN 1 + PrefixLen(Tail(s), chars) ELSE 0

RECURSIVE UnitLen(_)
\* time.ParseDuration: a unit runs up to the next digit or '.'
UnitLen(s) ==
    IF s # <<>> /\ ~IsDigit(Head(s)) /\ Head(s) # "." THEN 1 + UnitLen(Tail(s))
    ELSE 0

\* time.ParseDuration's unitMap, in nanoseconds.  Go's map also holds "m"
\* and "h"; their values exceed the integers of the model, so the literals
\* of the model use the units below.
UnitKnown(u) == u \in {<<"n","s">>, <<"u","s">>, <<"m","s">>, <<"s">>}
UnitNanos(u) ==
    CASE u = <<"n","s">> -> 1
      [] u = <<"u","s">> -> 1000
      [] u = <<"m","s">> -> 1000000
      [] u = <<"s">>     -> 1000000000

RECURSIVE DurationGroups(_)
\* the loop of time.ParseDuration over "<digits><unit>" groups (fractions
\* are not part of the model's literals)
DurationGroups(s) ==
    IF s = <<>> THEN Ok(0)
    ELSE LET n == PrefixLen(s, Range(Digits))
             rest == SubSeq(s, n + 1, Len(s))
             u == UnitLen(rest)
             unit == SubSeq(rest, 1, u)
             tail == DurationGroups(SubSeq(rest, u + 1, Len(rest)))
         IN  IF n = 0 THEN Fail("invalid duration", 0)
             ELSE IF u = 0 THEN Fail("missing unit in duration", 0)
             ELSE IF ~UnitKnown(unit) THEN Fail("unknown unit in duration", 0)
             ELSE IF tail.err # "" THEN tail
             ELSE Ok(DecimalValue(SubSeq(s, 1, n)) * UnitNanos(unit) + tail.v)

\* time.ParseDuration
ParseDuration(s) ==
    LET signed == s # <<>> /\ Head(s) \in {"+", "-"}
        body == IF signed THEN Tail(s) ELSE s
        r == DurationGroups(body)
    IN  IF body = <<"0">> THEN Ok(0)
        ELSE IF body = <<>> THEN Fail("invalid duration", 0)
        ELSE IF r.err # "" THEN r
        ELSE IF signed /\ Head(s) = "-" THEN Ok(0 - r.v) ELSE r

\* time.Parse(c.timeLayout, s) for the layout "2006" (a four-digit year):
\* the instant is midnight UTC of January 1 of that year, modelled by the
\* year; year 1 is the zero instant of time.Time.
ParseTime(s) ==
    IF Len(s) = 4 /\ AllDigits(s) THEN Ok(DecimalValue(s))
    ELSE Fail("cannot parse time", 1)

----------------------------------------------------------------------------
(* Destination types and values                                            *)
(*                                                                         *)
(* A type is named by its Go spelling.  Values: BOOLEAN for bool, an       *)
(* integer for the integer kinds and time.Duration (nanoseconds), the year *)
(* for time.Time, a string for string, a sequence of element values for a  *)
(* slice, <<>> (nil) or <<pointee>> for a pointer, <<>> for a nil          *)
(* interface and for a struct that is not a time.Time (its own fields are  *)
(* separate leaves).                                                       *)

\* reflect.Kind of a type
Kind(t) ==
    CASE t = "bool" -> "bool"
      [] t \in {"int", "int8", "Duration"} -> "int"
      [] t \in {"uint", "uint8"} -> "uint"
      [] t = "string" -> "string"
      [] t \in {"Time", "struct"} -> "struct"
      [] t \in {"[]int", "[]uint8", "[]string"} -> "slice"
      [] t \in {"*int", "*string", "*Time"} -> "ptr"
      [] OTHER -> "interface"

\* reflect.Type.Elem of a pointer or slice type
Elem(t) ==
    CASE t \in {"[]int", "*int"} -> "int"
      [] t = "[]uint8" -> "uint8"
      [] t \in {"[]string", "*string"} -> "string"
      [] t = "*Time" -> "Time"

\* the zero value of a type (reflect.New(t).Elem(), reflect.MakeSlice's
\* elements, a freshly declared struct field)
Zero(t) ==
    CASE Kind(t) = "bool" -> FALSE
      [] Kind(t) \in {"int", "uint"} -> 0
      [] t = "Time" -> 1
      [] OTHER -> <<>>

\* reflect.Value.SetInt / SetUint: the 64-bit result of the parse is stored
\* in the destination's width, keeping the low bits
SetInt(t, i) == IF t = "int8" THEN ((i + 128) % 256) - 128 ELSE i
SetUint(t, i) == IF t = "uint8" THEN i % 256 ELSE i

\* stringSlice: strip one enclosing "[" and "]", split on ",", trim the
\* white space around each element
stringSlice(val) ==
    LET ss == Split(TrimSuffix(TrimPrefix(val, "["), "]"), ",")
    IN  [i \in DOMAIN ss |-> TrimSpace(ss[i])]

RECURSIVE setValue(_, _, _)
RECURSIVE setSlice(_, _, _)

\* setSlice that appends the parsed elements to what the destination holds
setSlice_Appends(t, sv, val) ==
    LET ss == stringSlice(val)
        rs == [i \in DOMAIN ss |-> setValue(Elem(t), Zero(Elem(t)), ss[i])]
        bad == {i \in DOMAIN ss : rs[i].err # ""}
    IN  IF bad # {}
        THEN Fail(rs[CHOOSE i \in bad : \A j \in bad : i <= j].err, sv)
        ELSE Ok(sv \o [i \in DOMAIN ss |-> rs[i].v])

\* setSlice that stores each element into the destination as it is parsed
setSlice_KeepsParsedPrefix(t, sv, val) ==
    LET ss == stringSlice(val)
        rs == [i \in DOMAIN ss |-> setValue(Elem(t), Zero(Elem(t)), ss[i])]
        bad == {i \in DOMAIN ss : rs[i].err # ""}
        b == CHOOSE i \in bad : \A j \in bad : i <= j
    IN  IF bad # {}
        THEN Fail(rs[b].err, [i \in 1..(b - 1) |-> rs[i].v])
        ELSE Ok([i \in DOMAIN ss |-> rs[i].v])

\* setSlice: every element is parsed into a fresh slice, which is stored in
\* the destination only when all of them parsed
setSlice(t, sv, val) ==
    LET ss == stringSlice(val)
        rs == [i \in DOMAIN ss |-> setValue(Elem(t), Zero(Elem(t)), ss[i])]
        bad == {i \in DOMAIN ss : rs[i].err # ""}
    IN  IF bad # {}
        THEN Fail(rs[CHOOSE i \in bad : \A j \in bad : i <= j].err, sv)
        ELSE Ok([i \in DOMAIN ss |-> rs[i].v])

\* setValue: the destination fv of type t receives val converted to t.
\* The result carries the error and the value the destination holds after
\* the call.
setValue(t, fv, val) ==
    CASE Kind(t) = "ptr" ->
           LET r == setValue(Elem(t), IF fv = <<>> THEN Zero(Elem(t)) ELSE fv[1],
                             val)
           IN  [err |-> r.err, v |-> <<r.v>>]
      [] Kind(t) = "slice" -> setSlice(t, fv, val)
      [] Kind(t) = "bool" ->
           LET r == ParseBool(val)
           IN  IF r.err # "" THEN Fail(r.err, fv) ELSE r
      [] Kind(t) = "int" /\ t = "Duration" ->
           LET r == ParseDuration(val)
           IN  IF r.err # "" THEN Fail(r.err, fv) ELSE r
      [] Kind(t) = "int" /\ t # "Duration" ->
           LET r == ParseInt(val)
           IN  IF r.err # "" THEN Fail(r.err, fv) ELSE Ok(SetInt(t, r.v))
      [] Kind(t) = "uint" ->
           LET r == ParseUint(val)
           IN  IF r.err # "" THEN Fail(r.err, fv) ELSE Ok(SetUint(t, r.v))
      [] Kind(t) = "string" -> Ok(val)
      [] Kind(t) = "struct" /\ t = "Time" ->
           LET r == ParseTime(val)
           IN  IF r.err # "" THEN Fail(r.err, fv) ELSE r
      [] Kind(t) = "struct" /\ t # "Time" -> Fail("unsupported type struct", fv)
      [] OTHER -> Fail("unsupported type interface", fv)

\* setDefaultValue: setValue, except that a bool destination is refused
setDefaultValue(t, fv, val) ==
    IF Kind(t) = "bool" THEN Fail("unsupported type: bool", fv)
    ELSE setValue(t, fv, val)

RECURSIVE isZero(_, _)
\* isZero: whether a leaf counts as unset
isZero(t, v) ==
    CASE Kind(t) = "slice" -> Len(v) = 0
      [] Kind(t) = "ptr" -> IF v = <<>> THEN TRUE ELSE isZero(Elem(t), v[1])
      [] Kind(t) = "interface" -> TRUE
      [] Kind(t) = "struct" -> IF t = "Time" THEN v = 1 ELSE FALSE
      [] Kind(t) = "bool" -> v = FALSE
      [] Kind(t) \in {"int", "uint"} -> v = 0
      [] OTHER -> v = <<>>

----------------------------------------------------------------------------
(* The environment and the per-field policy                                *)

\* os.LookupEnv
LookupEnv(env, key) ==
    IF key \in DOMAIN env THEN [ok |-> TRUE, val |-> env[key]]
    ELSE [ok |-> FALSE, val |-> <<>>]

\* the replacer that drops both brackets of an index
ReplacerReplace_DropsBrackets(key) ==
    Concat([i \in DOMAIN key |->
              CASE key[i] = "." -> <<"_">>
                [] key[i] \in {"[", "]"} -> <<>>
                [] OTHER -> <<key[i]>>])

\* strings.NewReplacer(".", "_", "[", "_", "]", "").Replace(key)
ReplacerReplace(key) ==
    Concat([i \in DOMAIN key |->
              CASE key[i] \in {".", "["} -> <<"_">>
                [] key[i] = "]" -> <<>>
                [] OTHER -> <<key[i]>>])

\* formatEnvKey that upper-cases the key before the prefix is put in front
formatEnvKey_UpperKeyOnly(envPrefix, key) ==
    LET k == ToUpper(ReplacerReplace(key))
    IN  IF envPrefix # <<>> THEN envPrefix \o <<"_">> \o k ELSE k

\* formatEnvKey
formatEnvKey(envPrefix, key) ==
    LET k == ReplacerReplace(key)
    IN  ToUpper(IF envPrefix # <<>> THEN envPrefix \o <<"_">> \o k ELSE k)

\* setFromEnv
setFromEnv(cc, env, t, fv, key) ==
    LET e == LookupEnv(env, formatEnvKey(cc.envPrefix, key))
    IN  IF e.ok THEN setValue(t, fv, e.val) ELSE Ok(fv)

BothTagsMsg == "field cannot have both a required validation and a default value"
RequiredMsg == "required validation failed"

\* processField with the environment overlay moved in front of the check of
\* the two tags
processField_EnvFirst(cc, env, f, fv) ==
    LET e == IF cc.useEnv THEN setFromEnv(cc, env, f.t, fv, f.path) ELSE Ok(fv)
        d == setDefaultValue(f.t, e.v, f.defaultVal)
    IN  IF e.err # ""
        THEN Fail("unable to set from env: " \o e.err, e.v)
        ELSE IF f.required /\ f.setDefault
        THEN Fail(BothTagsMsg, e.v)
        ELSE IF f.required /\ isZero(f.t, e.v)
        THEN Fail(RequiredMsg, e.v)
        ELSE IF f.setDefault /\ isZero(f.t, e.v)
        THEN IF d.err # "" THEN Fail("unable to set default: " \o d.err, d.v)
             ELSE Ok(d.v)
        ELSE Ok(e.v)

\* processField with the default stored whether or not the leaf is zero
processField_DefaultAlways(cc, env, f, fv) ==
    LET e == IF cc.useEnv THEN setFromEnv(cc, env, f.t, fv, f.path) ELSE Ok(fv)
        d == setDefaultValue(f.t, e.v, f.defaultVal)
    IN  IF f.required /\ f.setDefault
        THEN Fail(BothTagsMsg, fv)
        ELSE IF e.err # ""
        THEN Fail("unable to set from env: " \o e.err, e.v)
        ELSE IF f.required /\ isZero(f.t, e.v)
        THEN Fail(RequiredMsg, e.v)
        ELSE IF f.setDefault
        THEN IF d.err # "" THEN Fail("unable to set default: " \o d.err, d.v)
             ELSE Ok(d.v)
        ELSE Ok(e.v)

\* processField with the environment consulted only for a leaf the decode
\* step left zero
processField_EnvOnlyIfZero(cc, env, f, fv) ==
    LET e == IF cc.useEnv /\ isZero(f.t, fv)
             THEN setFromEnv(cc, env, f.t, fv, f.path) ELSE Ok(fv)
        d == setDefaultValue(f.t, e.v, f.defaultVal)
    IN  IF f.required /\ f.setDefault
        THEN Fail(BothTagsMsg, fv)
        ELSE IF e.err # ""
        THEN Fail("unable to set from env: " \o e.err, e.v)
        ELSE IF f.required /\ isZero(f.t, e.v)
        THEN Fail(RequiredMsg, e.v)
        ELSE IF f.setDefault /\ isZero(f.t, e.v)
        THEN IF d.err # "" THEN Fail("unable to set default: " \o d.err, d.v)
             ELSE Ok(d.v)
        ELSE Ok(e.v)

\* processField with the required check passed by any leaf the environment
\* has a value for
processField_RequiredSkipsEnv(cc, env, f, fv) ==
    LET e == IF cc.useEnv THEN setFromEnv(cc, env, f.t, fv, f.path) ELSE Ok(fv)
        d == setDefaultValue(f.t, e.v, f.defaultVal)
        hit == cc.useEnv /\ LookupEnv(env, formatEnvKey(cc.envPrefix, f.path)).ok
    IN  IF f.required /\ f.setDefault
        THEN Fail(BothTagsMsg, fv)
        ELSE IF e.err # ""
        THEN Fail("unable to set from env: " \o e.err, e.v)
        ELSE IF f.required /\ ~hit /\ isZero(f.t, e.v)
        THEN Fail(RequiredMsg, e.v)
        ELSE IF f.setDefault /\ isZero(f.t, e.v)
        THEN IF d.err # "" THEN Fail("unable to set default: " \o d.err, d.v)
             ELSE Ok(d.v)
        ELSE Ok(e.v)

\* processField with the required check made on the value the decode step
\* left, before the environment overlay
processField_RequiredBeforeEnv(cc, env, f, fv) ==
    LET e == IF cc.useEnv THEN setFromEnv(cc, env, f.t, fv, f.path) ELSE Ok(fv)
        d == setDefaultValue(f.t, e.v, f.defaultVal)
    IN  IF f.required /\ f.setDefault
        THEN Fail(BothTagsMsg, fv)
        ELSE IF f.required /\ isZero(f.t, fv)
        THEN Fail(RequiredMsg, fv)
        ELSE IF e.err # ""
        THEN Fail("unable to set from env: " \o e.err, e.v)
        ELSE IF f.setDefault /\ isZero(f.t, e.v)
        THEN IF d.err # "" THEN Fail("unable to set default: " \o d.err, d.v)
             ELSE Ok(d.v)
        ELSE Ok(e.v)

\* processField going on to the required check and the default after the
\* environment value failed to convert
processField_EnvFailureGoesOn(cc, env, f, fv) ==
    LET e == IF cc.useEnv THEN setFromEnv(cc, env, f.t, fv, f.path) ELSE Ok(fv)
        d == setDefaultValue(f.t, e.v, f.defaultVal)
    IN  IF f.required /\ f.setDefault
        THEN Fail(BothTagsMsg, fv)
        ELSE IF f.required /\ isZero(f.t, e.v)
        THEN Fail(RequiredMsg, e.v)
        ELSE IF f.setDefault /\ isZero(f.t, e.v)
        THEN IF d.err # "" THEN Fail("unable to set default: " \o d.err, d.v)
             ELSE IF e.err # ""
             THEN Fail("unable to set from env: " \o e.err, d.v)
             ELSE Ok(d.v)
        ELSE IF e.err # ""
        THEN Fail("unable to set from env: " \o e.err, e.v)
        ELSE Ok(e.v)

\* processField, on the leaf described by f whose storage holds fv
processField(cc, env, f, fv) ==
    LET e == IF cc.useEnv THEN setFromEnv(cc, env, f.t, fv, f.path) ELSE Ok(fv)
        d == setDefaultValue(f.t, e.v, f.defaultVal)
    IN  IF f.required /\ f.setDefault
        THEN Fail(BothTagsMsg, fv)
        ELSE IF e.err # ""
        THEN Fail("unable to set from env: " \o e.err, e.v)
        ELSE IF f.required /\ isZero(f.t, e.v)
        THEN Fail(RequiredMsg, e.v)
        ELSE IF f.setDefault /\ isZero(f.t, e.v)
        THEN IF d.err # "" THEN Fail("unable to set default: " \o d.err, d.v)
             ELSE Ok(d.v)
        ELSE Ok(e.v)

----------------------------------------------------------------------------
(* ${NAME} / ${NAME:default} substitution in decoded strings               *)

\* the position of the first "}" at or after position i that is reached
\* without crossing a newline ('.' of the pattern matches no newline);
\* 0 when there is none
RECURSIVE CloseAt(_, _)
CloseAt(s, i) ==
    IF i > Len(s) \/ s[i] = "\n" THEN 0
    ELSE IF s[i] = "}" THEN i
    ELSE CloseAt(s, i + 1)

\* regexp `\$\{(.*?|)\}`, FindAllStringSubmatch(s, -1) from position i on:
\* the leftmost, shortest, non-overlapping matches, each with its group
RECURSIVE FindAllStringSubmatch(_, _)
FindAllStringSubmatch(s, i) ==
    IF i + 2 > Len(s) THEN <<>>
    ELSE IF s[i] = "$" /\ s[i + 1] = "{" /\ CloseAt(s, i + 2) # 0
         THEN LET j == CloseAt(s, i + 2)
              IN  <<[whole |-> SubSeq(s, i, j), value |-> SubSeq(s, i + 2, j - 1)]>>
                  \o FindAllStringSubmatch(s, j + 1)
         ELSE FindAllStringSubmatch(s, i + 1)

\* the loop of replaceEnvironments over the matches, res being the text
\* rewritten so far
RECURSIVE ReplaceMatches(_, _, _)
ReplaceMatches(env, res, matches) ==
    IF matches = <<>> THEN Ok(res)
    ELSE LET m == Head(matches)
             sp == Split(m.value, ":")
             e == LookupEnv(env, sp[1])
             defaultVal == IF Len(sp) > 1 THEN sp[2] ELSE <<>>
         IN  IF m.value = <<>> THEN Fail("environment name is missing", res)
             ELSE ReplaceMatches(env,
                      ReplaceAll(res, m.whole, IF e.ok THEN e.val ELSE defaultVal),
                      Tail(matches))

\* replaceEnvironments
replaceEnvironments(env, str) ==
    ReplaceMatches(env, str, FindAllStringSubmatch(str, 1))

----------------------------------------------------------------------------
(* Files, decoders and the untyped trees                                   *)
(*                                                                         *)
(* A tree maps top-level keys to [t, v]: t = "str" with v a string, or     *)
(* t = "map" for a nested mapping.  A file content is [bad, tree]: bad     *)
(* when its text is not well-formed in the format its decoder expects.     *)

NilTree == <<>>

\* filepath.Join(dir, file)
Join(dir, file) == [dir |-> dir, name |-> file]

\* fileExists
fileExists(fs, path) == path \in DOMAIN fs

\* filepath.Ext: from the last "." of the name on, "" when it has none
Ext(name) ==
    IF \A i \in DOMAIN name : name[i] # "." THEN <<>>
    ELSE SubSeq(name, CHOOSE i \in DOMAIN name :
                         name[i] = "." /\ \A k \in (i + 1)..Len(name) : name[k] # ".",
                Len(name))

DecoderYaml == <<".","y","a","m","l">>
DecoderYml  == <<".","y","m","l">>
DecoderJSON == <<".","j","s","o","n">>
DecoderToml == <<".","t","o","m","l">>

\* decodeReader: the decoder is picked by the tag; an unknown tag is an error
decodeReader(content, decoder) ==
    IF decoder \notin {DecoderYaml, DecoderYml, DecoderJSON, DecoderToml}
    THEN Fail("unsupported file extension", NilTree)
    ELSE IF content.bad THEN Fail("decode error", NilTree)
    ELSE Ok(content.tree)

\* decodeFile: os.Open fails for a path that names no file (also the empty
\* path returned with a lookup error)
decodeFile(fs, file) ==
    IF ~fileExists(fs, file) THEN Fail("open: no such file or directory", NilTree)
    ELSE decodeReader(fs[file], Ext(file.name))

NoFile == [dir |-> "", name |-> <<>>]

RECURSIVE findIn_LastMatch(_, _, _)
\* a directory loop that keeps looking after a match: the last directory of
\* dirs that holds the file
findIn_LastMatch(fs, dirs, file) ==
    IF dirs = <<>> THEN [err |-> "file not found", path |-> NoFile]
    ELSE IF fileExists(fs, Join(dirs[Len(dirs)], file))
         THEN [err |-> "", path |-> Join(dirs[Len(dirs)], file)]
         ELSE findIn_LastMatch(fs, SubSeq(dirs, 1, Len(dirs) - 1), file)

\* the loop shared by findCfgFile and findProfileCfgFile: the first directory
\* of dirs, in order, that holds the file
RECURSIVE findIn(_, _, _)
findIn(fs, dirs, file) ==
    IF dirs = <<>> THEN [err |-> "file not found", path |-> NoFile]
    ELSE IF fileExists(fs, Join(Head(dirs), file))
         THEN [err |-> "", path |-> Join(Head(dirs), file)]
         ELSE findIn(fs, Tail(dirs), file)

\* findCfgFile
findCfgFile(cc, fs) == findIn(fs, cc.dirs, cc.filename)

\* profileFileName; the index expression parts[1] of the Go code panics when
\* the filename holds no "."
profileFileNamePanics(cc) == Len(Split(cc.filename, ".")) < 2

profileFileName(cc, profile) ==
    LET parts == Split(cc.filename, ".")
        f1 == ReplaceAll(cc.profileLayout, <<"c","o","n","f","i","g">>, parts[1])
        f2 == ReplaceAll(f1, <<"t","e","s","t">>, profile)
    IN  ReplaceAll(f2, <<"y","a","m","l">>, parts[2])

\* findProfileCfgFile
findProfileCfgFile(cc, fs, profile) ==
    findIn(fs, cc.dirs, profileFileName(cc, profile))

\* mergo.Merge(&dst, src, WithOverride, WithTypeCheck): on a key of both
\* trees the value of src wins; values of different types under one key are
\* an error
MergeErr(dst, src) ==
    \E k \in DOMAIN dst \cap DOMAIN src : dst[k].t # src[k].t

Merge(dst, src) ==
    [k \in DOMAIN dst \cup DOMAIN src |->
        IF k \in DOMAIN src THEN src[k] ELSE dst[k]]

\* decodeMap on one leaf: the value under the leaf's name, a string passing
\* through the substitution hook; a leaf whose key is absent keeps its value
decodeLeaf(env, m, f, fv) ==
    IF f.path \notin DOMAIN m THEN Ok(fv)
    ELSE IF m[f.path].t # "str" THEN Fail("expected type string", fv)
    ELSE LET r == replaceEnvironments(env, m[f.path].v)
         IN  IF r.err # "" THEN Fail(r.err, fv) ELSE Ok(r.v)

----------------------------------------------------------------------------
(* Load and processCfg, step by step                                       *)

Running == [kind |-> "running", msg |-> "", notFound |-> FALSE, fe |-> <<>>]
Nil == [kind |-> "nil", msg |-> "", notFound |-> FALSE, fe |-> <<>>]
Error(msg) == [kind |-> "error", msg |-> msg, notFound |-> FALSE, fe |-> <<>>]
\* fmt.Errorf("%s: %w", file, ErrFileNotFound)
NotFound == [kind |-> "error", msg |-> "file not found", notFound |-> TRUE,
             fe |-> <<>>]
FieldErrors(fe) == [kind |-> "fieldErrors", msg |-> "", notFound |-> FALSE,
                    fe |-> fe]
Panic == [kind |-> "panic", msg |-> "index out of range", notFound |-> FALSE,
          fe |-> <<>>]

\* isStructPtr
isStructPtr(d) == d = "*struct"

\* Load whose merge of reader and file lets the reader's values win
LoadHead_ReaderWins(cc, fs, ov, d) ==
    LET found == findCfgFile(cc, fs)
        dec == decodeFile(fs, found.path)
        rd == decodeReader(ov, cc.readerDecoder)
    IN  IF ~isStructPtr(d)
        THEN [ret |-> Error("cfg must be a pointer to a struct"), vals |-> NilTree]
        ELSE IF ~cc.useReader /\ found.err # ""
        THEN [ret |-> NotFound, vals |-> NilTree]
        ELSE IF ~cc.useReader /\ dec.err # ""
        THEN [ret |-> Error(dec.err), vals |-> NilTree]
        ELSE IF ~cc.useReader
        THEN [ret |-> Running, vals |-> dec.v]
        ELSE IF rd.err # ""
        THEN [ret |-> Error(rd.err), vals |-> NilTree]
        ELSE IF MergeErr(rd.v, dec.v)
        THEN [ret |-> Error("merge: type mismatch"), vals |-> NilTree]
        ELSE [ret |-> Running, vals |-> Merge(dec.v, rd.v)]

\* Load that goes on to open the file although the lookup failed
LoadHead_IgnoresLookupError(cc, fs, ov, d) ==
    LET found == findCfgFile(cc, fs)
        dec == decodeFile(fs, found.path)
        rd == decodeReader(ov, cc.readerDecoder)
    IN  IF ~isStructPtr(d)
        THEN [ret |-> Error("cfg must be a pointer to a struct"), vals |-> NilTree]
        ELSE IF ~cc.useReader /\ dec.err # ""
        THEN [ret |-> Error(dec.err), vals |-> NilTree]
        ELSE IF ~cc.useReader
        THEN [ret |-> Running, vals |-> dec.v]
        ELSE IF rd.err # ""
        THEN [ret |-> Error(rd.err), vals |-> NilTree]
        ELSE IF MergeErr(rd.v, dec.v)
        THEN [ret |-> Error("merge: type mismatch"), vals |-> NilTree]
        ELSE [ret |-> Running, vals |-> Merge(rd.v, dec.v)]

\* Load that returns the lookup error whether or not a reader is configured
LoadHead_LookupAlwaysFatal(cc, fs, ov, d) ==
    LET found == findCfgFile(cc, fs)
        dec == decodeFile(fs, found.path)
        rd == decodeReader(ov, cc.readerDecoder)
    IN  IF ~isStructPtr(d)
        THEN [ret |-> Error("cfg must be a pointer to a struct"), vals |-> NilTree]
        ELSE IF found.err # ""
        THEN [ret |-> NotFound, vals |-> NilTree]
        ELSE IF ~cc.useReader /\ dec.err # ""
        THEN [ret |-> Error(dec.err), vals |-> NilTree]
        ELSE IF ~cc.useReader
        THEN [ret |-> Running, vals |-> dec.v]
        ELSE IF rd.err # ""
        THEN [ret |-> Error(rd.err), vals |-> NilTree]
        ELSE IF MergeErr(rd.v, dec.v)
        THEN [ret |-> Error("merge: type mismatch"), vals |-> NilTree]
        ELSE [ret |-> Running, vals |-> Merge(rd.v, dec.v)]

\* Load up to the profile loop: the outcome is the error returned, or the
\* tree vals the loop starts from
LoadHead(cc, fs, ov, d) ==
    LET found == findCfgFile(cc, fs)
        dec == decodeFile(fs, found.path)
        rd == decodeReader(ov, cc.readerDecoder)
    IN  IF ~isStructPtr(d)
        THEN [ret |-> Error("cfg must be a pointer to a struct"), vals |-> NilTree]
        ELSE IF ~cc.useReader /\ found.err # ""
        THEN [ret |-> NotFound, vals |-> NilTree]
        ELSE IF ~cc.useReader /\ dec.err # ""
        THEN [ret |-> Error(dec.err), vals |-> NilTree]
        ELSE IF ~cc.useReader
        THEN [ret |-> Running, vals |-> dec.v]
        ELSE IF rd.err # ""
        THEN [ret |-> Error(rd.err), vals |-> NilTree]
        ELSE IF MergeErr(rd.v, dec.v)
        THEN [ret |-> Error("merge: type mismatch"), vals |-> NilTree]
        ELSE [ret |-> Running, vals |-> Merge(rd.v, dec.v)]

\* a profile loop whose merge keeps the values the tree already holds
LoadProfileBody_TreeWins(cc, fs, tree, profile) ==
    LET found == findProfileCfgFile(cc, fs, profile)
        dec == decodeFile(fs, found.path)
    IN  IF profileFileNamePanics(cc)
        THEN [ret |-> Panic, vals |-> tree]
        ELSE IF found.err # ""
        THEN [ret |-> NotFound, vals |-> tree]
        ELSE IF dec.err # ""
        THEN [ret |-> Error(dec.err \o ", filename"), vals |-> tree]
        ELSE IF MergeErr(tree, dec.v)
        THEN [ret |-> Error("merge: type mismatch"), vals |-> tree]
        ELSE [ret |-> Running, vals |-> Merge(dec.v, tree)]

\* a profile loop that passes over a profile whose file is in no directory
LoadProfileBody_SkipsMissing(cc, fs, tree, profile) ==
    LET found == findProfileCfgFile(cc, fs, profile)
        dec == decodeFile(fs, found.path)
    IN  IF profileFileNamePanics(cc)
        THEN [ret |-> Panic, vals |-> tree]
        ELSE IF found.err # ""
        THEN [ret |-> Running, vals |-> tree]
        ELSE IF dec.err # ""
        THEN [ret |-> Error(dec.err \o ", filename"), vals |-> tree]
        ELSE IF MergeErr(tree, dec.v)
        THEN [ret |-> Error("merge: type mismatch"), vals |-> tree]
        ELSE [ret |-> Running, vals |-> Merge(tree, dec.v)]

\* one iteration of the profile loop of Load
LoadProfileBody(cc, fs, tree, profile) ==
    LET found == findProfileCfgFile(cc, fs, profile)
        dec == decodeFile(fs, found.path)
    IN  IF profileFileNamePanics(cc)
        THEN [ret |-> Panic, vals |-> tree]
        ELSE IF found.err # ""
        THEN [ret |-> NotFound, vals |-> tree]
        ELSE IF dec.err # ""
        THEN [ret |-> Error(dec.err \o ", filename"), vals |-> tree]
        ELSE IF MergeErr(tree, dec.v)
        THEN [ret |-> Error("merge: type mismatch"), vals |-> tree]
        ELSE [ret |-> Running, vals |-> Merge(tree, dec.v)]

\* Load, lines 95-120
LoadStart ==
    /\ pc = "Load"
    /\ LET h == LoadHead(c, fsys, override, dest)
       IN  /\ vals' = h.vals
           /\ result' = h.ret
           /\ pc' = IF h.ret = Running THEN "profiles" ELSE "done"
    /\ UNCHANGED <<c, fsys, environ, override, fields, cfg, pidx, fidx, errs,
                   hist, dest, args, ret>>

\* Load, lines 122-136: the body of the loop for the next profile
LoadProfile ==
    /\ pc = "profiles"
    /\ pidx <= Len(c.profiles)
    /\ LET b == LoadProfileBody(c, fsys, vals, c.profiles[pidx])
       IN  /\ vals' = b.vals
           /\ result' = b.ret
           /\ pc' = IF b.ret = Running THEN "profiles" ELSE "done"
           /\ pidx' = IF b.ret = Running THEN pidx + 1 ELSE pidx
    /\ UNCHANGED <<c, fsys, environ, override, fields, cfg, fidx, errs, hist,
                   dest, args, ret>>

\* Load, lines 138-142: decodeMap, and on success the call of processCfg
\* (flattenCfg and the empty fieldErrors).  decodeMap stores every leaf that
\* decodes and reports the ones that do not.
LoadDecode ==
    /\ pc = "profiles"
    /\ pidx > Len(c.profiles)
    /\ LET rs == [i \in DOMAIN fields |->
                     decodeLeaf(environ, vals, fields[i], cfg[i])]
           failed == \E i \in DOMAIN fields : rs[i].err # ""
       IN  /\ cfg' = [i \in DOMAIN fields |-> rs[i].v]
           /\ result' = IF failed THEN Error("decode") ELSE Running
           /\ pc' = IF failed THEN "done" ELSE "processCfg"
    /\ fidx' = 1
    /\ errs' = <<>>
    /\ UNCHANGED <<c, fsys, environ, override, fields, vals, pidx, hist, dest,
                   args, ret>>

\* processCfg whose loop returns at the first leaf that fails
ProcessCfgField_StopAtFirstError ==
    /\ pc = "processCfg"
    /\ fidx <= Len(fields)
    /\ LET f == fields[fidx]
           r == processField(c, environ, f, cfg[fidx])
       IN  /\ cfg' = [cfg EXCEPT ![fidx] = r.v]
           /\ errs' = IF r.err # "" THEN (f.path :> r.err) @@ errs ELSE errs
           /\ hist' = Append(hist, [before |-> cfg[fidx], err |-> r.err])
           /\ fidx' = IF r.err # "" THEN Len(fields) + 1 ELSE fidx + 1
    /\ UNCHANGED <<c, fsys, environ, override, fields, pc, vals, pidx, result,
                   dest, args, ret>>

\* processCfg whose loop passes over the leaf after one that fails
ProcessCfgField_SkipsAfterError ==
    /\ pc = "processCfg"
    /\ fidx <= Len(fields)
    /\ LET f == fields[fidx]
           r == processField(c, environ, f, cfg[fidx])
       IN  /\ cfg' = [cfg EXCEPT ![fidx] = r.v]
           /\ errs' = IF r.err # "" THEN (f.path :> r.err) @@ errs ELSE errs
           /\ hist' = Append(hist, [before |-> cfg[fidx], err |-> r.err])
           /\ fidx' = IF r.err # "" THEN fidx + 2 ELSE fidx + 1
    /\ UNCHANGED <<c, fsys, environ, override, fields, pc, vals, pidx, result,
                   dest, args, ret>>

\* processCfg, lines 275-279: the body of the loop for the next leaf
ProcessCfgField ==
    /\ pc = "processCfg"
    /\ fidx <= Len(fields)
    /\ LET f == fields[fidx]
           r == processField(c, environ, f, cfg[fidx])
       IN  /\ cfg' = [cfg EXCEPT ![fidx] = r.v]
           /\ errs' = IF r.err # "" THEN (f.path :> r.err) @@ errs ELSE errs
           /\ hist' = Append(hist, [before |-> cfg[fidx], err |-> r.err])
    /\ fidx' = fidx + 1
    /\ UNCHANGED <<c, fsys, environ, override, fields, pc, vals, pidx, result,
                   dest, args, ret>>

\* processCfg, lines 281-285
ProcessCfgReturn ==
    /\ pc = "processCfg"
    /\ fidx > Len(fields)
    /\ result' = IF DOMAIN errs # {} THEN FieldErrors(errs) ELSE Nil
    /\ pc' = "done"
    /\ UNCHANGED <<c, fsys, environ, override, fields, cfg, vals, pidx, fidx,
                   errs, hist, dest, args, ret>>

----------------------------------------------------------------------------
(* Bounds and inputs                                                       *)

\* the longest profile list of a load
MaxProfiles == 2
\* the number of leaves of the record handed to processCfg directly
NumFields == 3

SeqsUpTo(S, n) == UNION {[1..m -> S] : m \in 0..n}

DefaultProfileLayout ==
    <<"c","o","n","f","i","g",".","t","e","s","t",".","y","a","m","l">>

\* the options of defaultConfucius, with the given ones replaced
Options(useEnv, envPrefix, useReader, profiles, filename) ==
    [useEnv |-> useEnv, useReader |-> useReader, dirs |-> <<"d1", "d2">>,
     profiles |-> profiles, filename |-> filename, envPrefix |-> envPrefix,
     profileLayout |-> DefaultProfileLayout, readerDecoder |-> DecoderYaml]

NoContent == [bad |-> TRUE, tree |-> NilTree]

Leaf(path, t, required, setDefault, defaultVal) ==
    [path |-> path, t |-> t, required |-> required, setDefault |-> setDefault,
     defaultVal |-> defaultVal]

\* the literals offered to a leaf of type t, as environment value and as
\* default: some that convert to a set value, some that convert to the zero
\* value, some that do not convert
Literals(t) ==
    CASE t = "bool" -> {<<"t","r","u","e">>, <<"f","a","l","s","e">>, <<"x">>}
      [] t = "int" -> {<<"0">>, <<"-","8">>, <<"x">>}
      [] t = "int8" -> {<<"0">>, <<"5">>, <<"3","0","0">>}
      [] t = "uint8" -> {<<"0">>, <<"5">>, <<"-","5">>}
      [] t = "string" -> {<<>>, <<"e">>}
      [] t = "Duration" -> {<<"0">>, <<"2","m","s">>, <<"5">>}
      [] t = "Time" -> {<<"0","0","0","1">>, <<"2","0","2","0">>, <<"x">>}
      [] t = "[]int" -> {<<"[","5",",","1","0","]">>, <<"5",",","x">>, <<>>}
      [] t = "*int" -> {<<"0">>, <<"5">>, <<"x">>}
      [] OTHER -> {<<"e">>}

\* the values the decode step may have left in a leaf of type t
Values(t) ==
    CASE t = "bool" -> {FALSE, TRUE}
      [] t \in {"int", "int8", "uint8", "Duration"} -> {0, 7}
      [] t = "string" -> {<<>>, <<"f">>}
      [] t = "Time" -> {1, 1999}
      [] t = "[]int" -> {<<>>, <<7>>}
      [] t = "*int" -> {<<>>, <<0>>, <<7>>}
      [] OTHER -> {<<>>}

FieldTypes == {"bool", "int", "int8", "uint8", "string", "Duration", "Time",
               "struct", "interface", "[]int", "*int"}

\* every policy a pair of tags can declare on a leaf of type t
LeavesOf(paths, t) ==
    {Leaf(p, t, r, FALSE, <<>>) : p \in paths, r \in BOOLEAN}
    \cup {Leaf(p[1], t, p[2], TRUE, d) :
             p \in paths \X BOOLEAN, d \in Literals(t)}

PathX == <<"x">>

\* the state every run starts from, apart from its inputs
Fresh ==
    /\ vals = NilTree
    /\ pidx = 1
    /\ fidx = 1
    /\ errs = <<>>
    /\ result = Running
    /\ hist = <<>>
    /\ args = <<>>
    /\ ret = <<>>

\* processCfg called on a record of one leaf, of any type and policy
InitField ==
    /\ \E useEnv \in BOOLEAN, prefix \in {<<>>, <<"m","y">>} :
          c = Options(useEnv, prefix, FALSE, <<>>, <<"s",".","y","m","l">>)
    /\ \E t \in FieldTypes :
          /\ fields \in {<<f>> : f \in LeavesOf({PathX}, t)}
          /\ cfg \in {<<v>> : v \in Values(t)}
          /\ environ \in {<<>>}
                \cup {(k :> e) : k \in {<<"X">>, <<"M","Y","_","X">>},
                                 e \in Literals(t)}
    /\ fsys = <<>>
    /\ override = NoContent
    /\ dest = "*struct"
    /\ pc = "processCfg"
    /\ Fresh

NextCfg == ProcessCfgField \/ ProcessCfgReturn

SpecField == InitField /\ [][NextCfg]_vars

----------------------------------------------------------------------------
(* Properties of processField, checked on records of one leaf (SpecField)  *)

\* the leaves processCfg has handled so far
Handled == DOMAIN hist

BothTags(i) == fields[i].required /\ fields[i].setDefault
OnlyRequired(i) == fields[i].required /\ ~fields[i].setDefault
OnlyDefault(i) == ~fields[i].required /\ fields[i].setDefault

\* the environment holds the formatted key of leaf i, and is consulted
EnvKey(i) == formatEnvKey(c.envPrefix, fields[i].path)
EnvHit(i) == c.useEnv /\ EnvKey(i) \in DOMAIN environ

\* the conversion of the environment value of leaf i into the leaf
EnvCoerced(i) == setValue(fields[i].t, hist[i].before, environ[EnvKey(i)])
OverlayOk(i) == ~EnvHit(i) \/ EnvCoerced(i).err = ""

\* the value of leaf i when the required and default steps are reached
AfterOverlay(i) == IF EnvHit(i) THEN EnvCoerced(i).v ELSE hist[i].before

\* the conversion of the default literal of leaf i into the leaf
DefaultCoerced(i) ==
    setDefaultValue(fields[i].t, AfterOverlay(i), fields[i].defaultVal)

\* C1: a leaf tagged both required and default gets the mutual-exclusion
\* error, its path is a key of the aggregated error that is returned, and its
\* value is the one the decode step left: neither the environment nor the
\* default is stored in it.
C1_BothTagsRejected ==
    \A i \in Handled :
        BothTags(i) =>
            /\ hist[i].err = BothTagsMsg
            /\ cfg[i] = hist[i].before
            /\ fields[i].path \in DOMAIN errs
            /\ pc = "done" =>
                  /\ result.kind = "fieldErrors"
                  /\ fields[i].path \in DOMAIN result.fe

\* a leaf with both tags whose environment value would have converted to a
\* value other than the one it holds; processCfg has returned
C1_Witness ==
    /\ pc = "done"
    /\ \E i \in Handled :
          /\ BothTags(i)
          /\ EnvHit(i)
          /\ EnvCoerced(i).err = ""
          /\ EnvCoerced(i).v # hist[i].before
          /\ ~isZero(fields[i].t, hist[i].before)

Unset(t, v) ==
    CASE t \in {"int", "int8", "uint8", "Duration"} -> v = 0
      [] t = "bool" -> v = FALSE
      [] t = "string" -> v = <<>>
      [] t = "[]int" -> Len(v) = 0
      [] t = "*int" -> v = <<>> \/ v[1] = 0
      [] t = "interface" -> v = <<>>
      [] t = "Time" -> v = 1
      [] t = "struct" -> FALSE

C5_StepOrder ==
    \A i \in Handled :
        /\ BothTags(i) => (hist[i].err = BothTagsMsg /\ cfg[i] = hist[i].before)
        /\ (~BothTags(i) /\ ~OverlayOk(i)) =>
              hist[i].err = "unable to set from env: " \o EnvCoerced(i).err
        /\ (OnlyRequired(i) /\ OverlayOk(i)) =>
              IF isZero(fields[i].t, AfterOverlay(i))
              THEN hist[i].err = RequiredMsg
              ELSE hist[i].err = "" /\ cfg[i] = AfterOverlay(i)
        /\ (OnlyDefault(i) /\ OverlayOk(i)
               /\ ~isZero(fields[i].t, AfterOverlay(i))) =>
              (hist[i].err = "" /\ cfg[i] = AfterOverlay(i))

\* a required leaf the decode step left unset, set by the environment
C5_Witness ==
    \E i \in Handled :
        /\ OnlyRequired(i)
        /\ isZero(fields[i].t, hist[i].before)
        /\ EnvHit(i)
        /\ hist[i].err = ""
        /\ cfg[i] = EnvCoerced(i).v
        /\ ~isZero(fields[i].t, cfg[i])

\* C7 as stated: a bool leaf with a default is always refused with the
\* "unsupported type" error, whatever its value.
C7_BoolDefaultAlwaysRejected ==
    \A i \in Handled :
        (fields[i].t = "bool" /\ OnlyDefault(i) /\ OverlayOk(i))
            => hist[i].err = "unable to set default: unsupported type: bool"

----------------------------------------------------------------------------
(* Properties of processCfg, checked on records of several leaves (SpecCfg) *)

\* the alt-names the leaves of the record declare: two leaves may declare
\* the same one, and then share a path
CfgPaths == {<<"a">>, <<"b">>}

CfgLeaves ==
    {Leaf(p, "int", r, FALSE, <<>>) : p \in CfgPaths, r \in BOOLEAN}
    \cup {Leaf(p, "int", FALSE, TRUE, d) :
             p \in CfgPaths, d \in {<<"5">>, <<"x">>}}
    \cup {Leaf(p, "int", TRUE, TRUE, <<"5">>) : p \in CfgPaths}

\* processCfg called on a record of up to NumFields integer leaves
InitCfg ==
    /\ \E useEnv \in BOOLEAN :
          /\ c = Options(useEnv, <<>>, FALSE, <<>>, <<"s",".","y","m","l">>)
          /\ environ \in IF useEnv
                          THEN {<<>>, <<"A">> :> <<"9">>, <<"A">> :> <<"x">>}
                          ELSE {<<>>}
    /\ \E n \in 0..NumFields :
          /\ fields \in [1..n -> CfgLeaves]
          /\ cfg \in [1..n -> {0, 7}]
    /\ fsys = <<>>
    /\ override = NoContent
    /\ dest = "*struct"
    /\ pc = "processCfg"
    /\ Fresh

SpecCfg == InitCfg /\ [][NextCfg]_vars

\* the most elements of the sequence of structs of a record
MaxSeqLen == 2

\* the path of field name of element i (counted from 0) of the sequence A
ElemPath(i, name) == <<"A", "[", Digits[i + 1], "]", ".">> \o name

\* the leaves of a record whose one field A is a sequence of n structs of a
\* required string B and an integer C of default 5: one leaf per field of
\* each element that exists, in order
flattenCfg(n) ==
    [k \in 1..(2 * n) |->
        IF k % 2 = 1
        THEN Leaf(ElemPath((k - 1) \div 2, <<"B">>), "string", TRUE, FALSE, <<>>)
        ELSE Leaf(ElemPath((k - 1) \div 2, <<"C">>), "int", FALSE, TRUE, <<"5">>)]

\* the variables of the environment that address a field of an element at
\* an index up to MaxSeqLen, one past the longest sequence
SeqKeys ==
    {<<"A", "_", Digits[i + 1], "_", n>> : i \in 0..MaxSeqLen, n \in {"B", "C"}}

\* each variable that is set holds a value of its own
SeqEnv(keys) ==
    [k \in keys |-> IF k[5] = "B" THEN <<"b", k[3]>> ELSE <<"9", k[3]>>]

\* processCfg called on a record whose field A holds n elements
InitSeq ==
    /\ c = Options(TRUE, <<>>, FALSE, <<>>, <<"s",".","y","m","l">>)
    /\ environ \in {SeqEnv(keys) : keys \in SUBSET SeqKeys}
    /\ \E n \in 0..MaxSeqLen :
          /\ fields = flattenCfg(n)
          /\ cfg \in {[k \in 1..(2 * n) |-> IF k % 2 = 1 THEN b ELSE 0] :
                          b \in {<<>>, <<"b","o","o">>}}
    /\ fsys = <<>>
    /\ override = NoContent
    /\ dest = "*struct"
    /\ pc = "processCfg"
    /\ Fresh

SpecSeq == InitSeq /\ [][NextCfg]_vars

\* the number of leaves of the record whose handling is followed to the end
MaxLeaves == 2

\* a leaf named "a" of every policy with the value the decode step left in
\* it: zero, or set where a set value is handled in a way of its own
LeafCases ==
    {<<f, v>> \in {g \in CfgLeaves : g.path = <<"a">>} \X {0, 7} :
        v = 7 => (~(f.required /\ f.setDefault) /\ f.defaultVal # <<"x">>)}

\* processCfg called on a record of up to MaxLeaves integer leaves of one
\* name
InitLeaves ==
    /\ \E useEnv \in BOOLEAN :
          /\ c = Options(useEnv, <<>>, FALSE, <<>>, <<"s",".","y","m","l">>)
          /\ environ \in IF useEnv
                          THEN {<<"A">> :> <<"9">>, <<"A">> :> <<"x">>}
                          ELSE {<<>>}
    /\ \E n \in 0..MaxLeaves :
          \E cases \in [1..n -> LeafCases] :
              /\ fields = [k \in 1..n |-> cases[k][1]]
              /\ cfg = [k \in 1..n |-> cases[k][2]]
    /\ fsys = <<>>
    /\ override = NoContent
    /\ dest = "*struct"
    /\ pc = "processCfg"
    /\ Fresh

\* processCfg is straight-line code around a loop over a finite slice: a
\* step that can be taken is taken
SpecLeavesFair == InitLeaves /\ [][NextCfg]_vars /\ WF_vars(NextCfg)

\* the leaves whose resolution fails, from the value each held on entry
Failing ==
    {i \in DOMAIN hist :
        processField(c, environ, fields[i], hist[i].before).err # ""}

FailingPaths == {fields[i].path : i \in Failing}

----------------------------------------------------------------------------
(* Load on a record of two string leaves (Spec)                            *)

Str(v) == [t |-> "str", v |-> v]
MapVal == [t |-> "map", v |-> <<>>]
Good(tree) == [bad |-> FALSE, tree |-> tree]

KeyA == <<"a">>
KeyB == <<"b">>

\* what the primary file, the reader and the profile files may hold; every
\* source writes its own mark, so a decoded value tells where it came from
FileContents ==
    {NoContent, Good(KeyA :> Str(<<"f">>)),
     Good((KeyA :> Str(<<"f">>)) @@ (KeyB :> Str(<<"f">>))),
     Good(KeyA :> MapVal)}

ReaderContents ==
    {NoContent, Good((KeyA :> Str(<<"o">>)) @@ (KeyB :> Str(<<"o">>))),
     Good(KeyB :> Str(<<"o">>))}

ProfileContents(profile) ==
    IF profile = <<"p">>
    THEN {NoContent, Good(KeyA :> Str(<<"p">>)), Good(KeyB :> Str(<<"p">>)),
          Good(KeyA :> MapVal)}
    ELSE {Good(KeyA :> Str(<<"q">>)),
          Good((KeyA :> Str(<<"q">>)) @@ (KeyB :> Str(<<"q">>)))}

ProfileNames == {<<"p">>, <<"q">>}

\* the directory a profile's file is put in, when it is there at all
ProfileDir(profile) == IF profile = <<"p">> THEN "d1" ELSE "d2"

\* the file systems holding at most one primary file and, for the profiles of
\* the list, at most one file each
FileSystems(cc) ==
    LET primary == {<<>>} \cup {Join(d, cc.filename) :> x :
                                   d \in {"d1", "d2"}, x \in FileContents}
        listed == {cc.profiles[j] : j \in DOMAIN cc.profiles}
        named(pr) == IF profileFileNamePanics(cc) THEN <<"x">>
                     ELSE profileFileName(cc, pr)
        of(pr) == IF pr \in listed
                  THEN {<<>>} \cup {Join(ProfileDir(pr), named(pr)) :> x :
                                       x \in ProfileContents(pr)}
                  ELSE {<<>>}
    IN  {f @@ g @@ h : f \in primary, g \in of(<<"p">>), h \in of(<<"q">>)}

LoadLeaves ==
    {<<Leaf(KeyA, "string", pol[1], pol[2], pol[3]),
       Leaf(KeyB, "string", FALSE, FALSE, <<>>)>> :
        pol \in {<<FALSE, FALSE, <<>>>>, <<TRUE, FALSE, <<>>>>,
                 <<FALSE, TRUE, <<"d">>>>}}

\* Load called with any of the options, files, reader and environment above
Init ==
    /\ \E useEnv \in BOOLEAN, useReader \in BOOLEAN,
          profiles \in SeqsUpTo(ProfileNames, MaxProfiles),
          filename \in {<<"s",".","y","m","l">>, <<"s">>} :
          /\ c = Options(useEnv, <<>>, useReader, profiles, filename)
          /\ environ \in IF useEnv THEN {<<>>, <<"A">> :> <<"e">>} ELSE {<<>>}
          /\ override \in IF useReader THEN ReaderContents ELSE {NoContent}
    /\ fsys \in FileSystems(c)
    /\ fields \in LoadLeaves
    /\ cfg = [i \in DOMAIN fields |-> Zero(fields[i].t)]
    /\ dest \in {"*struct", "struct"}
    /\ pc = "Load"
    /\ Fresh

Next ==
    \/ LoadStart
    \/ LoadProfile
    \/ LoadDecode
    \/ ProcessCfgField
    \/ ProcessCfgReturn

Spec == Init /\ [][Next]_vars

----------------------------------------------------------------------------
(* Properties of Load (Spec)                                               *)

\* some search directory holds a file of this name
Holds(name) == \E i \in DOMAIN c.dirs : Join(c.dirs[i], name) \in DOMAIN fsys

\* the content of the file of this name in the first directory that holds it
ContentOf(name) ==
    LET i == CHOOSE i \in DOMAIN c.dirs :
                 /\ Join(c.dirs[i], name) \in DOMAIN fsys
                 /\ \A k \in 1..(i - 1) : Join(c.dirs[k], name) \notin DOMAIN fsys
    IN  fsys[Join(c.dirs[i], name)]

\* the primary file is found, of a supported format and well-formed
FileLoaded ==
    /\ Holds(c.filename)
    /\ Ext(c.filename) \in {DecoderYaml, DecoderYml, DecoderJSON, DecoderToml}
    /\ ~ContentOf(c.filename).bad

FileTree == IF FileLoaded THEN ContentOf(c.filename).tree ELSE NilTree
ReaderTree == IF c.useReader /\ ~override.bad THEN override.tree ELSE NilTree
ProfileName(j) == profileFileName(c, c.profiles[j])
ProfileTree(j) == ContentOf(ProfileName(j)).tree
ProfileMissing(j) == ~Holds(ProfileName(j))

\* the decode step has just stored the tree into the destination
Decoded == pc = "processCfg" /\ fidx = 1

\* C8: when a reader and a primary file are both loaded and both set a key,
\* the value decoded into the destination is the file's; a key only the
\* reader sets keeps the reader's value (for keys no profile sets).
C8_FileOverridesReader ==
    (Decoded /\ c.useReader /\ FileLoaded) =>
        \A i \in DOMAIN fields :
            LET k == fields[i].path
            IN  (\A j \in DOMAIN c.profiles : k \notin DOMAIN ProfileTree(j)) =>
                   /\ (k \in DOMAIN FileTree /\ k \in DOMAIN ReaderTree)
                         => cfg[i] = FileTree[k].v
                   /\ (k \notin DOMAIN FileTree /\ k \in DOMAIN ReaderTree)
                         => cfg[i] = ReaderTree[k].v

\* reader and file both set a and only the reader sets b; both are decoded
C8_Witness ==
    /\ Decoded /\ c.useReader /\ FileLoaded
    /\ KeyA \in DOMAIN FileTree /\ KeyA \in DOMAIN ReaderTree
    /\ KeyB \notin DOMAIN FileTree /\ KeyB \in DOMAIN ReaderTree
    /\ \A j \in DOMAIN c.profiles : DOMAIN ProfileTree(j) = {}
    /\ cfg[1] = <<"f">> /\ cfg[2] = <<"o">>

\* reader, primary file and the first n profiles, least authoritative first
Sources(n) == <<ReaderTree, FileTree>> \o [j \in 1..n |-> ProfileTree(j)]

\* every key with the value of the last of these sources that sets it
LastWins(srcs) ==
    [k \in UNION {DOMAIN srcs[j] : j \in DOMAIN srcs} |->
        LET j == CHOOSE j \in DOMAIN srcs :
                     /\ k \in DOMAIN srcs[j]
                     /\ \A m \in (j + 1)..Len(srcs) : k \notin DOMAIN srcs[m]
        IN  srcs[j][k]]

\* C9: profiles are merged over the current tree in list order, profile
\* values taking precedence: after each profile the tree holds, for every
\* key, the value of the last profile so far that sets it, else the file's,
\* else the reader's; and the decoded value of a leaf is that of the last
\* profile of the list that sets its key, else the file (or reader) value.
C9_LastProfileWins ==
    /\ pc = "profiles" => vals = LastWins(Sources(pidx - 1))
    /\ Decoded =>
          \A i \in DOMAIN fields :
              LET k == fields[i].path
                  tree == LastWins(Sources(Len(c.profiles)))
              IN  cfg[i] = IF k \in DOMAIN tree THEN tree[k].v
                           ELSE Zero(fields[i].t)

\* the file and two different profiles set a, only the file sets b; the
\* decoded a is the second profile's and not the first's
C9_Witness ==
    /\ Decoded /\ FileLoaded
    /\ Len(c.profiles) = 2 /\ c.profiles[1] # c.profiles[2]
    /\ KeyA \in DOMAIN FileTree /\ KeyB \in DOMAIN FileTree
    /\ \A j \in 1..2 : KeyA \in DOMAIN ProfileTree(j)
                         /\ KeyB \notin DOMAIN ProfileTree(j)
    /\ cfg[1] = ProfileTree(2)[KeyA].v
    /\ cfg[1] # ProfileTree(1)[KeyA].v
    /\ cfg[2] = <<"f">>

Untouched == cfg = [i \in DOMAIN fields |-> Zero(fields[i].t)]

\* no reader is configured and no search directory holds the primary file
PrimaryAbsentNoReader ==
    ~c.useReader /\ isStructPtr(dest) /\ ~Holds(c.filename)

\* C11: without a reader, a primary file that is in none of the search
\* directories makes Load return, before anything else is read, an error
\* that wraps ErrFileNotFound; and an error of Load wraps ErrFileNotFound
\* only when a lookup failed (the primary file's without a reader, or that
\* of the profile the loop stopped at), never when a file did not parse, a
\* merge failed or a field was refused.
C11_PrimaryAbsentIsNotFound ==
    /\ PrimaryAbsentNoReader =>
          /\ pc \in {"Load", "done"}
          /\ pc = "done" =>
                (result.kind = "error" /\ result.notFound /\ vals = NilTree
                 /\ pidx = 1 /\ Untouched)
    /\ (pc = "done" /\ result.notFound) =>
          /\ result.kind = "error"
          /\ \/ PrimaryAbsentNoReader
             \/ /\ pidx <= Len(c.profiles)
                /\ ~profileFileNamePanics(c)
                /\ ProfileMissing(pidx)

\* Load has returned file-not-found for an absent primary file, with a
\* profile configured whose file is there
C11_Witness ==
    /\ pc = "done" /\ PrimaryAbsentNoReader /\ result.notFound
    /\ Len(c.profiles) = 1 /\ ~profileFileNamePanics(c) /\ ~ProfileMissing(1)

\* a well-formed reader is configured and no search directory holds the
\* primary file
PrimaryAbsentWithReader ==
    c.useReader /\ ~override.bad /\ isStructPtr(dest) /\ ~Holds(c.filename)

\* C12: with a reader configured and the primary file in no search
\* directory, Load does not fail with file-not-found for it: the tree the
\* profile loop starts from is the reader's alone, and with no profile
\* configured Load reaches the field pass and every leaf was decoded from
\* the reader (a leaf the reader does not set keeps its value).
C12_ReaderAloneLoads ==
    PrimaryAbsentWithReader =>
        /\ (pc = "profiles" /\ pidx = 1) => vals = override.tree
        /\ (pc = "done" /\ result.notFound) =>
              (pidx <= Len(c.profiles) /\ ~profileFileNamePanics(c)
               /\ ProfileMissing(pidx))
        /\ c.profiles = <<>> =>
              /\ pc = "done" => (result.kind \in {"nil", "fieldErrors"}
                                 /\ Len(hist) = Len(fields))
              /\ Decoded =>
                    \A i \in DOMAIN fields :
                        cfg[i] = IF fields[i].path \in DOMAIN override.tree
                                 THEN override.tree[fields[i].path].v
                                 ELSE Zero(fields[i].t)

\* Load has returned nil with both leaves holding the reader's values
C12_Witness ==
    /\ PrimaryAbsentWithReader /\ c.profiles = <<>>
    /\ pc = "done" /\ result = Nil
    /\ ~c.useEnv
    /\ cfg = <<<<"o">>, <<"o">>>>

\* the primary file is found, and is malformed or of an unsupported format
PrimaryUndecodable ==
    /\ Holds(c.filename)
    /\ \/ ContentOf(c.filename).bad
       \/ Ext(c.filename)
             \notin {DecoderYaml, DecoderYml, DecoderJSON, DecoderToml}

\* C13: a primary file that is found but cannot be decoded makes Load
\* return an error without populating the destination, in every option
\* configuration, with or without a reader.
C13_UndecodableFileFails ==
    PrimaryUndecodable =>
        /\ pc \in {"Load", "done"}
        /\ pc = "done" => (result.kind = "error" /\ Untouched)

----------------------------------------------------------------------------
(* Functions called on their own (SpecCall)                                *)

\* the longest path handed to formatEnvKey, in characters
MaxKeyLen == 4
\* the longest list of search directories
MaxDirs == 3

KeyChars == {"a", ".", "[", "]", "0"}
LoggersPath ==
    <<"l","o","g","g","e","r","s","[","0","]",".","l","o","g","_","l","e","v",
      "e","l">>
KeyInputs == SeqsUpTo(KeyChars, MaxKeyLen) \cup {LoggersPath}
Prefixes == {<<>>, <<"m","y">>, <<"m","y","a","p","p">>}

DirNames == {"d1", "d2", "d3"}

\* everything but the inputs of the function called
CallFrame ==
    /\ override = NoContent
    /\ fields = <<>>
    /\ cfg = <<>>
    /\ dest = "*struct"
    /\ vals = NilTree
    /\ pidx = 1
    /\ fidx = 1
    /\ errs = <<>>
    /\ result = Running
    /\ hist = <<>>
    /\ ret = <<>>
    /\ pc = "call"

YmlName == <<"s",".","y","m","l">>

InitFormatEnvKey ==
    /\ args \in {[fn |-> "formatEnvKey", key |-> k] : k \in KeyInputs}
    /\ c \in {Options(TRUE, pre, FALSE, <<>>, YmlName) : pre \in Prefixes}
    /\ fsys = <<>>
    /\ environ = <<>>

InitFindCfgFile ==
    /\ args = [fn |-> "findCfgFile"]
    /\ c \in {[Options(FALSE, <<>>, FALSE, <<>>, YmlName) EXCEPT !.dirs = ds] :
                 ds \in SeqsUpTo(DirNames, MaxDirs)}
    /\ fsys \in {[p \in {Join(d, YmlName) : d \in held} |-> Good(NilTree)] :
                    held \in SUBSET DirNames}
    /\ environ = <<>>

\* formatEnvKey called with a path
CallFormatEnvKey ==
    /\ pc = "call"
    /\ args.fn = "formatEnvKey"
    /\ ret' = formatEnvKey(c.envPrefix, args.key)
    /\ pc' = "done"
    /\ UNCHANGED <<c, fsys, environ, override, fields, cfg, vals, pidx, fidx,
                   errs, result, hist, dest, args>>

\* findCfgFile called
CallFindCfgFile ==
    /\ pc = "call"
    /\ args.fn = "findCfgFile"
    /\ ret' = findCfgFile(c, fsys)
    /\ pc' = "done"
    /\ UNCHANGED <<c, fsys, environ, override, fields, cfg, vals, pidx, fidx,
                   errs, result, hist, dest, args>>

\* the most elements of a sequence literal
MaxElems == 2

RECURSIVE JoinComma(_)
\* the elements with a "," between each two
JoinComma(es) ==
    IF es = <<>> THEN <<>>
    ELSE IF Len(es) = 1 THEN es[1]
    ELSE es[1] \o <<",">> \o JoinComma(Tail(es))

\* the element texts of the literals: numbers, padded, not a number,
\* negative, empty, and with a bracket of their own
ElemTexts ==
    {<<"5">>, <<"1","0">>, <<" ","7"," ">>, <<"x">>, <<"-","5">>, <<>>,
     <<"[","a">>, <<"a","]">>}

SliceLiterals ==
    {(IF b[1] THEN <<"[">> ELSE <<>>) \o JoinComma(es)
        \o (IF b[2] THEN <<"]">> ELSE <<>>) :
        es \in SeqsUpTo(ElemTexts, MaxElems), b \in BOOLEAN \X BOOLEAN}

SliceTypes == {"[]int", "[]uint8", "[]string"}

\* what a sequence may hold before the call
SliceValues(t) ==
    IF t = "[]string" THEN {<<>>, <<<<"f">>>>} ELSE {<<>>, <<7>>}

InitSetSlice ==
    /\ \E t \in SliceTypes :
          args \in {[fn |-> "setSlice", t |-> t, sv |-> sv, val |-> val] :
                       sv \in SliceValues(t), val \in SliceLiterals}
    /\ c = Options(FALSE, <<>>, FALSE, <<>>, YmlName)
    /\ fsys = <<>>
    /\ environ = <<>>

\* setSlice called on a sequence destination; ret.v is what the destination
\* holds afterwards
CallSetSlice ==
    /\ pc = "call"
    /\ args.fn = "setSlice"
    /\ ret' = setSlice(args.t, args.sv, args.val)
    /\ pc' = "done"
    /\ UNCHANGED <<c, fsys, environ, override, fields, cfg, vals, pidx, fidx,
                   errs, result, hist, dest, args>>

\* the literals handed to setValue for a destination of type t: those of
\* Literals, and for the 8-bit kinds the ends of their range and beyond
CoerceLiterals(t) ==
    Literals(t) \cup
    (CASE t = "int8" -> {<<"1","2","7">>, <<"1","2","8">>, <<"-","1","2","8">>,
                         <<"-","1","2","9">>}
       [] t = "uint8" -> {<<"2","5","5">>, <<"2","5","6">>}
       [] OTHER -> {})

InitSetValue ==
    /\ \E t \in FieldTypes :
          args \in {[fn |-> "setValue", t |-> t, fv |-> fv, val |-> val] :
                       fv \in Values(t), val \in CoerceLiterals(t)}
    /\ c = Options(FALSE, <<>>, FALSE, <<>>, YmlName)
    /\ fsys = <<>>
    /\ environ = <<>>

\* setValue called on a destination; ret.v is what the destination holds
\* afterwards
CallSetValue ==
    /\ pc = "call"
    /\ args.fn = "setValue"
    /\ ret' = setValue(args.t, args.fv, args.val)
    /\ pc' = "done"
    /\ UNCHANGED <<c, fsys, environ, override, fields, cfg, vals, pidx, fidx,
                   errs, result, hist, dest, args>>

\* the most pieces (text or token) of a string value
MaxPieces == 2

\* plain text, and tokens naming A or B: bare, with a default, with an
\* empty default, with a default that holds a ":" itself
TextPieces == {<<"/">>, <<"x">>}
TokenPieces ==
    {<<"$","{","A","}">>, <<"$","{","B","}">>,
     <<"$","{","A",":","d","}">>, <<"$","{","B",":","d","}">>,
     <<"$","{","B",":","}">>, <<"$","{","B",":","d",":","e","}">>}

\* tokens without a name: bare, and with a default
EmptyNamePieces == {<<"$","{","}">>, <<"$","{",":","d","}">>}

\* the environments of a substitution: A and B unset or set, B to the empty
\* string, A to a text that is a token itself
SubstEnvs ==
    {<<>>, <<"A">> :> <<"1">>, <<"B">> :> <<"2">>,
     (<<"A">> :> <<"1">>) @@ (<<"B">> :> <<>>),
     (<<"A">> :> <<"$","{","B","}">>) @@ (<<"B">> :> <<"x">>)}

InitReplaceEnvironments ==
    /\ args \in {[fn |-> "replaceEnvironments", pieces |-> ps, str |-> Concat(ps)] :
                   ps \in SeqsUpTo(TextPieces \cup TokenPieces
                                     \cup EmptyNamePieces, MaxPieces)}
    /\ \E useEnv \in BOOLEAN :
          c = Options(useEnv, <<>>, FALSE, <<>>, YmlName)
    /\ environ \in SubstEnvs
    /\ fsys = <<>>

\* replaceEnvironments called on a string value
CallReplaceEnvironments ==
    /\ pc = "call"
    /\ args.fn = "replaceEnvironments"
    /\ ret' = replaceEnvironments(environ, args.str)
    /\ pc' = "done"
    /\ UNCHANGED <<c, fsys, environ, override, fields, cfg, vals, pidx, fidx,
                   errs, result, hist, dest, args>>

\* the most entries of an aggregated field error
MaxErrs == 3

\* the bytes of the paths, in ascending order of their codes
ByteOrder == <<".", "A", "B", "[", "]", "a">>

ByteCode(ch) == CHOOSE i \in DOMAIN ByteOrder : ByteOrder[i] = ch

\* Go's < on strings: bytewise, a proper prefix first
RECURSIVE StringLess(_, _)
StringLess(a, b) ==
    IF b = <<>> THEN FALSE
    ELSE IF a = <<>> THEN TRUE
    ELSE IF a[1] # b[1] THEN ByteCode(a[1]) < ByteCode(b[1])
    ELSE StringLess(Tail(a), Tail(b))

\* sort.Strings, as an insertion sort
RECURSIVE InsertSorted(_, _)
InsertSorted(keys, k) ==
    IF keys = <<>> THEN <<k>>
    ELSE IF StringLess(k, keys[1]) THEN <<k>> \o keys
    ELSE <<keys[1]>> \o InsertSorted(Tail(keys), k)

RECURSIVE SortStrings(_)
SortStrings(keys) ==
    IF keys = <<>> THEN <<>>
    ELSE InsertSorted(SortStrings(SubSeq(keys, 1, Len(keys) - 1)),
                      keys[Len(keys)])

\* the string builder after the loop over the keys: "key: detail, " each
RECURSIVE WriteEntries(_, _)
WriteEntries(fe, keys) ==
    IF keys = <<>> THEN <<>>
    ELSE keys[1] \o <<":", " ">> \o fe[keys[1]] \o <<",", " ">>
         \o WriteEntries(fe, Tail(keys))

\* strings.TrimSuffix for a suffix of any length
TrimSuffixStr(s, suffix) ==
    IF Len(s) >= Len(suffix) /\ HasPrefixAt(s, Len(s) - Len(suffix) + 1, suffix)
    THEN SubSeq(s, 1, Len(s) - Len(suffix))
    ELSE s

\* the rendering without the sort: the entries in the order of the range
fieldErrors_Error_Unsorted(fe, order) ==
    TrimSuffixStr(WriteEntries(fe, order), <<",", " ">>)

\* fieldErrors.Error(): the keys are collected in the order the range over
\* the map yields them (order), sorted, written, and the last ", " is cut
fieldErrors_Error(fe, order) ==
    TrimSuffixStr(WriteEntries(fe, SortStrings(order)), <<",", " ">>)

ErrPaths == {<<"A">>, <<"B">>, <<"A","B">>, <<"A",".","B">>, <<"a">>,
             <<"A","[","B","]">>}

ErrDetails == {<<"a","e","r","r">>, <<"b","e","r","r">>}

\* the orders in which a range over a map with these keys can yield them
Orders(keys) ==
    {o \in [1..Cardinality(keys) -> keys] :
        \A i, j \in DOMAIN o : i # j => o[i] # o[j]}

InitFieldErrorsError ==
    /\ \E keys \in {ks \in SUBSET ErrPaths : Cardinality(ks) <= MaxErrs} :
          args \in {[fn |-> "fieldErrors.Error", fe |-> fe, order |-> o] :
                       fe \in [keys -> ErrDetails], o \in Orders(keys)}
    /\ c = Options(FALSE, <<>>, FALSE, <<>>, YmlName)
    /\ fsys = <<>>
    /\ environ = <<>>

CallFieldErrorsError ==
    /\ pc = "call"
    /\ args.fn = "fieldErrors.Error"
    /\ ret' = fieldErrors_Error(args.fe, args.order)
    /\ pc' = "done"
    /\ UNCHANGED <<c, fsys, environ, override, fields, cfg, vals, pidx, fidx,
                   errs, result, hist, dest, args>>

\* base names, extensions and profile names of a profile file: plain ones,
\* ones that are words of the layout, and a base name with a dot
BaseNames == {<<"s">>, <<"c","o","n","f","i","g">>, <<"t","e","s","t">>,
              <<"a",".","b">>}

ExtNames == {<<"y","m","l">>, <<"y","a","m","l">>, <<"j","s","o","n">>}

ProfileWords == {<<"p">>, <<"t","e","s","t">>, <<"y","a","m","l">>,
                 <<"c","o","n","f","i","g">>}

InitProfileFileName ==
    /\ args \in {[fn |-> "profileFileName", base |-> b, ext |-> e,
                   profile |-> p] :
                     b \in BaseNames, e \in ExtNames, p \in ProfileWords}
    /\ c = Options(FALSE, <<>>, FALSE, <<args.profile>>,
                   args.base \o <<".">> \o args.ext)
    /\ fsys = <<>>
    /\ environ = <<>>

CallProfileFileName ==
    /\ pc = "call"
    /\ args.fn = "profileFileName"
    /\ ret' = profileFileName(c, args.profile)
    /\ pc' = "done"
    /\ UNCHANGED <<c, fsys, environ, override, fields, cfg, vals, pidx, fidx,
                   errs, result, hist, dest, args>>

InitCall ==
    /\ CallFrame
    /\ \/ InitFormatEnvKey
       \/ InitFindCfgFile
       \/ InitSetSlice
       \/ InitSetValue
       \/ InitReplaceEnvironments
       \/ InitFieldErrorsError
       \/ InitProfileFileName

NextCall ==
    \/ CallFormatEnvKey
    \/ CallFindCfgFile
    \/ CallSetSlice
    \/ CallSetValue
    \/ CallReplaceEnvironments
    \/ CallFieldErrorsError
    \/ CallProfileFileName

SpecCall == InitCall /\ [][NextCall]_vars

Returned(fn) == pc = "done" /\ args.fn = fn

\* what one character of a path becomes in the key
KeyOf(ch) ==
    IF ch \in {".", "["} THEN <<"_">>
    ELSE IF ch = "]" THEN <<>>
    ELSE <<UpperChar(ch)>>

RECURSIVE KeyOfPath(_)
KeyOfPath(path) ==
    IF path = <<>> THEN <<>>
    ELSE KeyOfPath(SubSeq(path, 1, Len(path) - 1)) \o KeyOf(path[Len(path)])

LoggersKey ==
    <<"L","O","G","G","E","R","S","_","0","_","L","O","G","_","L","E","V","E",
      "L">>

\* C14: formatEnvKey maps a path to the path with each "." and "[" replaced
\* by "_" and each "]" deleted, after the prefix and "_" when the prefix is
\* not empty, all of it upper-cased, the prefix too; separators that follow
\* one another all stay.  loggers[0].log_level gives LOGGERS_0_LOG_LEVEL,
\* and MYAPP_LOGGERS_0_LOG_LEVEL with the prefix myapp.
C14_FormatEnvKey ==
    Returned("formatEnvKey") =>
        /\ ret = (IF c.envPrefix = <<>> THEN <<>>
                  ELSE [i \in DOMAIN c.envPrefix |-> UpperChar(c.envPrefix[i])]
                       \o <<"_">>)
                 \o KeyOfPath(args.key)
        /\ (args.key = LoggersPath /\ c.envPrefix = <<>>) => ret = LoggersKey
        /\ (args.key = LoggersPath /\ c.envPrefix = <<"m","y","a","p","p">>)
              => ret = <<"M","Y","A","P","P","_">> \o LoggersKey

\* a prefixed key of a path with two separators in a row
C14_Witness ==
    /\ Returned("formatEnvKey")
    /\ c.envPrefix = <<"m","y">>
    /\ args.key = <<"a", "]", ".", "[">>
    /\ ret = <<"M","Y","_","A","_","_">>

\* the positions of the directories that hold the primary file
Holding == {i \in DOMAIN c.dirs : Join(c.dirs[i], c.filename) \in DOMAIN fsys}

\* C15: findCfgFile returns the path inside the first directory, in the
\* configured order, that holds the file, whatever later directories hold;
\* it returns the error (and the empty path) only when none holds it.
C15_FirstDirectoryWins ==
    Returned("findCfgFile") =>
        /\ Holding # {} =>
              /\ ret.err = ""
              /\ \E i \in Holding :
                    /\ \A k \in Holding : i <= k
                    /\ ret.path = Join(c.dirs[i], c.filename)
        /\ Holding = {} => (ret.err # "" /\ ret.path = NoFile)
        /\ ret.err # "" => Holding = {}

\* the second directory was chosen although the third holds the file too
C15_Witness ==
    /\ Returned("findCfgFile")
    /\ Len(c.dirs) = 3
    /\ Holding = {2, 3}
    /\ c.dirs[2] # c.dirs[3]
    /\ ret = [err |-> "", path |-> Join(c.dirs[2], c.filename)]

\* the elements of a comma-separated list, each without the white space
\* around it
ElemsOf(list) ==
    LET ss == Split(list, ",") IN [i \in DOMAIN ss |-> TrimSpace(ss[i])]

\* element by element, what the element kind of t makes of the texts
Coerced(t, es) ==
    [i \in DOMAIN es |-> setValue(Elem(t), Zero(Elem(t)), es[i])]

AllCoerce(t, es) == \A i \in DOMAIN es : Coerced(t, es)[i].err = ""

\* what a list all of whose elements coerce must give, in the list's order
InOrder(t, list) ==
    Ok([i \in DOMAIN ElemsOf(list) |-> Coerced(t, ElemsOf(list))[i].v])

\* the literal of the call is a list inside "[" and "]"; Inner is that list
Bracketed ==
    /\ Returned("setSlice")
    /\ Len(args.val) >= 2
    /\ args.val[1] = "[" /\ args.val[Len(args.val)] = "]"
Inner == SubSeq(args.val, 2, Len(args.val) - 1)

\* a list that has no bracket of its own at either end
Plain(list) ==
    list = <<>> \/ (list[1] # "[" /\ list[Len(list)] # "]")

C17_SliceAtomic ==
    (Returned("setSlice")
       /\ ~AllCoerce(args.t, stringSlice(args.val)))
      => (ret.err # "" /\ ret.v = args.sv)

\* the second element failed after the first had parsed, and the
\* destination still holds its one element
C17_Witness ==
    /\ Returned("setSlice")
    /\ args.t = "[]uint8"
    /\ args.sv = <<7>>
    /\ args.val = <<"[", "5", ",", "-", "5", "]">>
    /\ ret.err # "" /\ ret.v = <<7>>

\* C18: a call of setValue that fails leaves its destination exactly as it
\* was, for every kind; a nil pointer whose pointee does not parse stays
\* nil.
C18_NoPartialMutation ==
    (Returned("setValue") /\ ret.err # "") => ret.v = args.fv

\* a base-10 literal: digits, after a minus sign or not
Base10(val) ==
    AllDigits(IF val # <<>> /\ val[1] = "-" THEN Tail(val) ELSE val)

\* the number a base-10 literal denotes
Base10Value(val) ==
    IF val[1] = "-" THEN 0 - DecimalValue(Tail(val)) ELSE DecimalValue(val)

\* the numbers an 8-bit destination can hold
Fits(t, n) == IF t = "int8" THEN n \in -128..127 ELSE n \in 0..255

\* C19: a base-10 literal coerced into an integer destination of width w
\* (here the 8-bit kinds) succeeds only when its value fits in w bits, and
\* then stores exactly that value; a literal out of range, and for an
\* unsigned destination any literal with a leading minus sign, returns an
\* error and leaves the destination at its prior value.
C19_SizedToWidth ==
    (Returned("setValue") /\ args.t \in {"int8", "uint8"} /\ Base10(args.val))
      => IF Fits(args.t, Base10Value(args.val))
            /\ ~(args.t = "uint8" /\ args.val[1] = "-")
         THEN ret = Ok(Base10Value(args.val))
         ELSE ret.err # "" /\ ret.v = args.fv

\* the text between the first ":" of a token and its closing brace, "" for
\* a token without ":"
InlineDefault(tok) ==
    IF \A i \in DOMAIN tok : tok[i] # ":" THEN <<>>
    ELSE LET i == CHOOSE i \in DOMAIN tok :
                      tok[i] = ":" /\ \A k \in 1..(i - 1) : tok[k] # ":"
         IN  SubSeq(tok, i + 1, Len(tok) - 1)

\* what a piece of the string must become: text stays; a token becomes the
\* value of its variable (A or B, its third character) when that is set and
\* its inline default otherwise
Substituted(piece) ==
    IF piece \in TextPieces THEN piece
    ELSE IF <<piece[3]>> \in DOMAIN environ THEN environ[<<piece[3]>>]
    ELSE InlineDefault(piece)

\* every token of the string has a name
AllNamed == \A i \in DOMAIN args.pieces : args.pieces[i] \notin EmptyNamePieces

\* no value of the environment holds a token
NoTokenInEnv ==
    \A k \in DOMAIN environ : FindAllStringSubmatch(environ[k], 1) = <<>>

\* C20: replaceEnvironments replaces every ${NAME} and ${NAME:default} of a
\* string, with the environment option on or off, by the value of NAME when
\* it is set, else by the inline default, all the text between the first
\* ":" and the closing brace, else by the empty string, without error; the
\* text outside the tokens is returned as it is.
C20_TokensReplaced ==
    (Returned("replaceEnvironments") /\ AllNamed /\ NoTokenInEnv) =>
        ret = Ok(Concat([i \in DOMAIN args.pieces |->
                            Substituted(args.pieces[i])]))

\* C21: a string with a token whose name is empty, "${}" as well as
\* "${:default}", makes replaceEnvironments return an error; a string all
\* of whose tokens have a name never does.
C21_EmptyNameIsError ==
    Returned("replaceEnvironments") => ((ret.err # "") = ~AllNamed)

\* the default of every token of the string is free of ":"
PlainDefaults ==
    \A i \in DOMAIN args.pieces :
        args.pieces[i] # <<"$","{","B",":","d",":","e","}">>

\* C29: replaceEnvironments substitutes in one pass over the string it was
\* given: text put in as the value of a token is not expanded in its turn,
\* so the result is every token of the input replaced at once; with
\* A="${B}" and B="x", "${A}${B}" gives "${B}x".
C29_SinglePass ==
    (Returned("replaceEnvironments") /\ AllNamed /\ PlainDefaults) =>
        ret = Ok(Concat([i \in DOMAIN args.pieces |->
                            Substituted(args.pieces[i])]))

\* the keys of the aggregate in ascending order: the one arrangement of
\* them in which each is below the next
Ascending(fe) ==
    CHOOSE o \in Orders(DOMAIN fe) :
        \A i \in 1..(Len(o) - 1) : StringLess(o[i], o[i + 1])

Entry(fe, k) == k \o <<":", " ">> \o fe[k]

RECURSIVE JoinWith(_, _)
JoinWith(parts, sep) ==
    IF parts = <<>> THEN <<>>
    ELSE IF Len(parts) = 1 THEN parts[1]
    ELSE parts[1] \o sep \o JoinWith(Tail(parts), sep)

\* C22: the aggregated field error renders as its entries "path: detail"
\* joined by ", " in ascending order of path, whatever the order in which
\* the map yields them; an aggregate without entries renders as "".
C22_RendersSortedByPath ==
    Returned("fieldErrors.Error") =>
        /\ ret = JoinWith([i \in 1..Cardinality(DOMAIN args.fe) |->
                              Entry(args.fe, Ascending(args.fe)[i])],
                          <<",", " ">>)
        /\ (DOMAIN args.fe = {}) => ret = <<>>

\* the test's aggregate, B yielded before A: "A: aerr, B: berr"
C22_Witness ==
    /\ Returned("fieldErrors.Error")
    /\ args.order = << <<"B">>, <<"A">> >>
    /\ args.fe[<<"A">>] = <<"a","e","r","r">>
    /\ args.fe[<<"B">>] = <<"b","e","r","r">>
    /\ ret = <<"A",":"," ","a","e","r","r",",", " ",
               "B",":"," ","b","e","r","r">>

\* the environment value of leaf i was converted and the conversion failed
EnvFailed(i) == ~BothTags(i) /\ EnvHit(i) /\ EnvCoerced(i).err # ""

\* one step of the loop of processCfg handles the leaf at fidx and no other
OneLeafPerStep ==
    (pc = "processCfg" /\ fidx <= Len(fields)) =>
        /\ fidx' = fidx + 1
        /\ pc' = pc
        /\ Len(hist') = fidx
        /\ \A j \in DOMAIN cfg : j # fidx => cfg'[j] = cfg[j]

\* C23: a leaf whose environment value fails to convert gets the error
\* "unable to set from env: ..." and nothing else: not the required error,
\* and its default is not stored. The leaves after it are still handled, one
\* per step, and a step changes the value of no leaf but its own.
C23_FailFastPerLeaf ==
    /\ [](\A i \in Handled :
             EnvFailed(i) =>
                /\ hist[i].err = "unable to set from env: " \o EnvCoerced(i).err
                /\ cfg[i] = hist[i].before
                /\ errs[fields[i].path] # RequiredMsg)
    /\ [](pc = "done" => Len(hist) = Len(fields))
    /\ [][OneLeafPerStep]_vars

\* processCfg has returned; a leaf with a default, zero on entry, whose
\* environment value did not convert kept its zero, and a later leaf of
\* another path received its default
C23_Witness ==
    /\ pc = "done"
    /\ \E i, j \in Handled :
          /\ i < j
          /\ EnvFailed(i) /\ OnlyDefault(i)
          /\ hist[i].before = 0 /\ cfg[i] = 0
          /\ fields[i].defaultVal = <<"5">>
          /\ fields[j].path # fields[i].path
          /\ OnlyDefault(j) /\ hist[j].err = ""
          /\ hist[j].before = 0 /\ cfg[j] = 5

\* C24: under the default layout, for the primary filename base.ext and the
\* profile p, profileFileName returns base.p.ext, also when base or p is a
\* word of the layout and when base holds a dot.
C24_BaseProfileExt ==
    Returned("profileFileName") =>
        ret = args.base \o <<".">> \o args.profile \o <<".">> \o args.ext

\* the ways the handling of leaf i can end
RequiredOK(i) ==
    OnlyRequired(i) /\ hist[i].err = "" /\ cfg[i] = AfterOverlay(i)
RequiredFailed(i) ==
    OnlyRequired(i) /\ hist[i].err = RequiredMsg /\ cfg[i] = AfterOverlay(i)
DefaultApplied(i) ==
    /\ OnlyDefault(i) /\ hist[i].err = ""
    /\ isZero(fields[i].t, AfterOverlay(i))
    /\ cfg[i] = DefaultCoerced(i).v
DefaultFailed(i) ==
    /\ OnlyDefault(i) /\ DefaultCoerced(i).err # ""
    /\ hist[i].err = "unable to set default: " \o DefaultCoerced(i).err
\* no check fails and no default is stored: a leaf without tags, or with a
\* default it does not need
NoPolicy(i) ==
    /\ ~fields[i].required /\ hist[i].err = ""
    /\ fields[i].setDefault => ~isZero(fields[i].t, AfterOverlay(i))
    /\ cfg[i] = AfterOverlay(i)
BothTagsRejected(i) ==
    BothTags(i) /\ hist[i].err = BothTagsMsg /\ cfg[i] = hist[i].before
EnvRejected(i) ==
    /\ EnvFailed(i)
    /\ hist[i].err = "unable to set from env: " \o EnvCoerced(i).err

FiveOutcomes(i) ==
    {n \in 1..5 : CASE n = 1 -> RequiredOK(i)
                    [] n = 2 -> RequiredFailed(i)
                    [] n = 3 -> DefaultApplied(i)
                    [] n = 4 -> DefaultFailed(i)
                    [] n = 5 -> NoPolicy(i)}

SevenOutcomes(i) ==
    FiveOutcomes(i) \cup {n \in 6..7 : CASE n = 6 -> BothTagsRejected(i)
                                         [] n = 7 -> EnvRejected(i)}

\* C25 (as written): each leaf is handled exactly once, in order and with no
\* retry, from its value after the environment overlay or unchanged to
\* exactly one of RequiredOK, RequiredFailed, DefaultApplied, DefaultFailed,
\* NoPolicy; and processCfg returns once every leaf has been handled.
C25_FiveTerminalOutcomes ==
    /\ [](\A i \in Handled : Cardinality(FiveOutcomes(i)) = 1)
    /\ [][OneLeafPerStep]_vars
    /\ [](pc = "done" => Len(hist) = Len(fields))
    /\ <>(pc = "done")

\* C25 (amended): each leaf is handled exactly once, in order and with no
\* retry, and ends in exactly one of RequiredOK, RequiredFailed,
\* DefaultApplied, DefaultFailed, NoPolicy, or in one of the two rejections
\* that come before them: both tags declared, environment value not
\* convertible; and processCfg returns once every leaf has been handled.
C25_SevenTerminalOutcomes ==
    /\ [](\A i \in Handled : Cardinality(SevenOutcomes(i)) = 1)
    /\ [][OneLeafPerStep]_vars
    /\ [](pc = "done" => Len(hist) = Len(fields))
    /\ <>(pc = "done")

\* processCfg has returned from a record whose first leaf ended in the
\* rejection of both tags and whose second in that of the environment value
C25_Witness ==
    /\ pc = "done"
    /\ Len(hist) = Len(fields)
    /\ \E i, j \in Handled :
          i < j /\ BothTagsRejected(i) /\ EnvRejected(j)

\* the number of elements of the sequence A, two leaves each
SeqLen == Len(fields) \div 2

\* the name of the variable for a field of element i, counted from 0
SeqKey(i, name) == <<"A", "_", Digits[i + 1], "_", name>>

\* C26: processCfg leaves the sequence of structs at its length: the
\* elements that exist are handled under A[i], a variable for an index the
\* sequence does not reach creates nothing, and a variable for an element
\* that exists sets the field it names of that element and no other.
C26_SequenceKeepsLength ==
    /\ [][Len(cfg') = Len(cfg) /\ fields' = fields]_vars
    /\ [](pc = "done" =>
            /\ Len(hist) = Len(cfg)
            /\ \A i \in 0..(SeqLen - 1) :
                  /\ fields[2 * i + 1].path = ElemPath(i, <<"B">>)
                  /\ cfg[2 * i + 1] =
                        IF SeqKey(i, "B") \in DOMAIN environ
                        THEN <<"b", Digits[i + 1]>>
                        ELSE hist[2 * i + 1].before
                  /\ cfg[2 * i + 2] =
                        IF SeqKey(i, "C") \in DOMAIN environ
                        THEN 90 + i
                        ELSE 5)

\* processCfg has returned from a sequence of two elements, with variables
\* set for B of the second element and of a third: the second element has
\* its value, the first is as it was
C26_Witness ==
    /\ pc = "done"
    /\ SeqLen = 2 /\ Len(cfg) = 4
    /\ DOMAIN environ = {SeqKey(1, "B"), SeqKey(2, "B")}
    /\ cfg[1] = <<"b","o","o">> /\ cfg[3] = <<"b","1">>
    /\ result = Nil

\* Load has ended before the typed decode step, with something other than
\* nil
EndedBeforeDecode ==
    /\ pc = "done"
    /\ result.kind \in {"error", "panic"}
    /\ result # Error("decode")

\* C27: when Load ends with an error raised before the typed decode step,
\* the destination is as it was before the call and the error is a value
\* that Load returns, not a panic; for a destination that is not a pointer
\* to a struct that error is the precondition's, whatever the files are,
\* and nothing was read.
C27_EarlyErrorsLeaveDestination ==
    /\ EndedBeforeDecode => (result.kind = "error" /\ Untouched)
    /\ (pc = "done" /\ ~isStructPtr(dest)) =>
          /\ result = Error("cfg must be a pointer to a struct")
          /\ vals = NilTree /\ pidx = 1

\* C28: Load with at least one profile configured ends by returning nil or
\* an error, and never by a panic, whatever the primary filename is, one
\* without "." together with a reader included.
C28_LoadNeverPanics ==
    c.profiles # <<>> => result.kind # "panic"

\* processField applied once more to leaf i of the record processCfg left
Again(i) == processField(c, environ, fields[i], cfg[i])

\* C30: with the environment and the options kept, processCfg applied to
\* the record it produced changes no leaf and fails on the same paths as
\* the first time: a default is not stored over a value of the first pass,
\* and a leaf that failed fails again in the same way.
C30_SecondPassChangesNothing ==
    pc = "done" =>
        /\ \A i \in DOMAIN fields :
              /\ Again(i).v = cfg[i]
              /\ Again(i).err = hist[i].err
        /\ {fields[i].path : i \in {k \in DOMAIN fields : Again(k).err # ""}}
              = DOMAIN errs

\* processCfg has returned after it stored the default of a leaf that was
\* zero, and a second pass keeps the stored value
C30_Witness ==
    /\ pc = "done"
    /\ \E i \in Handled :
          /\ OnlyDefault(i) /\ hist[i].err = ""
          /\ ~EnvHit(i)
          /\ isZero(fields[i].t, hist[i].before)
          /\ cfg[i] # hist[i].before
          /\ Again(i) = Ok(cfg[i])

====
